---- MODULE Spec2Model ----
\* Ninghai mahjong server: the tile/deck model (models/Card.js), the round
\* logic (models/Game.js) and the request handlers that drive it
\* (controllers/gameController.js).
\*
\* A card id is the string `${type}_${value}` in the source.  Here an id is
\* the integer 10 * (index of the type) + value, and getCardById takes it
\* apart again the way split('_') / parseInt do.
EXTENDS Integers, Sequences, FiniteSets, TLC

\* ------------------------------------------------------------------ bounds
\* number of different Math.random() sequences the shuffle is run with
NumShuffles == 1
\* accepted discards per game explored
MaxDiscards == 2
\* accepted chi/peng/gang claims per game explored
MaxMelds == 1
\* discards of one Game object at which the seat picks among its cards
WallChoices == 3
\* number of Math.random() sequences the deal alone is run with
DealSeeds == 4
\* cards left in the deck when the flower sweep is run on a short deck
MaxShortDeck == 2
\* largest deck size and count but one that drawCards is called with
MaxDraw == 4
\* longest deck that is shuffled with every sequence of random choices
MaxShuffleLen == 4
\* users that call the methods of the room
NumUsers == 5
\* accepted calls of the room's methods
MaxRoomCalls == 7
\* discards of a round played through the request handler turn after turn
MaxTurns == 20

\* ------------------------------------------------------------ Card.js: Card
CARD_TYPES == <<"wan", "tong", "suo", "zi", "hua">>

\* the place of each type in CARD_TYPES
TypeIndex == [wan |-> 1, tong |-> 2, suo |-> 3, zi |-> 4, hua |-> 5]

\* Card.generateId
generateId(type, value) == 10 * TypeIndex[type] + value

\* new Card(type, value)
Card(type, value) == [type |-> type, value |-> value, id |-> generateId(type, value)]

\* Game.getCardById: split the id into type and value, build the Card
getCardById(cardId) == Card(CARD_TYPES[cardId \div 10], cardId % 10)

isFlower(card) == card.type = "hua"
isHonor(card) == card.type = "zi"
isNumber(card) == card.type \in {"wan", "tong", "suo"}
equals(card, other) == card.type = other.type /\ card.value = other.value

\* Card.canFormSequence: the three values sorted ascending are consecutive
Min3(a, b, c) == IF a <= b /\ a <= c THEN a ELSE IF b <= c THEN b ELSE c
Max3(a, b, c) == IF a >= b /\ a >= c THEN a ELSE IF b >= c THEN b ELSE c
\* canFormSequence comparing the values in the order given, without the sort
canFormSequenceUnsorted(card, card2, card3) ==
    IF ~isNumber(card) \/ ~isNumber(card2) \/ ~isNumber(card3) THEN FALSE
    ELSE IF card.type # card2.type \/ card.type # card3.type THEN FALSE
    ELSE card2.value = card.value + 1 /\ card3.value = card2.value + 1

canFormSequence(card, card2, card3) ==
    IF ~isNumber(card) \/ ~isNumber(card2) \/ ~isNumber(card3) THEN FALSE
    ELSE IF card.type # card2.type \/ card.type # card3.type THEN FALSE
    ELSE LET lo == Min3(card.value, card2.value, card3.value)
             hi == Max3(card.value, card2.value, card3.value)
             mid == card.value + card2.value + card3.value - lo - hi
         IN mid = lo + 1 /\ hi = mid + 1

\* -------------------------------------------------------- Card.js: CardDeck
\* the ids pushed by the three loops of initializeDeck, in push order
RECURSIVE Copies(_, _)
Copies(id, n) == IF n = 0 THEN <<>> ELSE <<id>> \o Copies(id, n - 1)

RECURSIVE ValuesFrom(_, _, _, _)
ValuesFrom(type, value, last, copies) ==
    IF value > last THEN <<>>
    ELSE Copies(generateId(type, value), copies) \o ValuesFrom(type, value + 1, last, copies)

\* initializeDeck without the loop of the flower cards
initializeDeckNoFlowers ==
    ValuesFrom("wan", 1, 9, 4) \o ValuesFrom("tong", 1, 9, 4) \o ValuesFrom("suo", 1, 9, 4)
        \o ValuesFrom("zi", 1, 7, 4)

initializeDeck ==
    ValuesFrom("wan", 1, 9, 4) \o ValuesFrom("tong", 1, 9, 4) \o ValuesFrom("suo", 1, 9, 4)
        \o ValuesFrom("zi", 1, 7, 4) \o ValuesFrom("hua", 1, 8, 1)

\* the source indexes arrays from 0; At/Swap take the source's indices
At(cards, i) == cards[i + 1]

\* the swap that only copies cards[j] to cards[i]
SwapCopy(cards, i, j) ==
    [k \in 1..Len(cards) |-> IF k = i + 1 THEN cards[j + 1] ELSE cards[k]]

Swap(cards, i, j) ==
    IF i = j THEN cards
    ELSE LET lo == IF i < j THEN i + 1 ELSE j + 1
             hi == IF i < j THEN j + 1 ELSE i + 1
         IN SubSeq(cards, 1, lo - 1) \o <<cards[hi]>> \o SubSeq(cards, lo + 1, hi - 1)
                \o <<cards[lo]>> \o SubSeq(cards, hi + 1, Len(cards))

RECURSIVE Factorial(_)
Factorial(n) == IF n <= 1 THEN 1 ELSE n * Factorial(n - 1)

\* the value of Math.floor(Math.random() * (i + 1)) in run `seed` of the
\* shuffle: some index in 0..i.  In run 1 three cards move: a 6-suo goes to
\* seat 0, a 7-suo and an 8-suo go to seat 1, and seat 3 gets three fa for
\* them.  In run 2 it is always i, so no card moves.  In run 3 one flower goes
\* to seat 1 and two go where seat 0 draws its first replacements.  In run 4
\* one flower goes to seat 2, one to seat 3, and four go where the first and
\* the second replacements are drawn.  The later runs move every 29th card
\* `seed` places down.
\* The runs numbered 0, -1, -2, ... go through all sequences of choices: run
\* -n takes for i the digit of n of weight i! (a number in 0..i), so that on a
\* deck of L cards the runs 0 .. -(L! - 1) are all the shuffles there are.
RandomIndex(seed, i) ==
    IF seed <= 0 THEN ((0 - seed) \div Factorial(i)) % (i + 1)
    ELSE IF seed = 1
    THEN IF i = 130 THEN 95 ELSE IF i = 129 THEN 103 ELSE IF i = 128 THEN 99 ELSE i
    ELSE IF seed = 2 THEN i
    ELSE IF seed = 3
    THEN IF i = 143 THEN 125 ELSE IF i = 142 THEN 90 ELSE IF i = 141 THEN 89 ELSE i
    ELSE IF seed = 4
    THEN IF i = 143 THEN 110 ELSE IF i = 142 THEN 95 ELSE IF i = 141 THEN 90
         ELSE IF i = 140 THEN 89 ELSE IF i = 139 THEN 86 ELSE IF i = 138 THEN 85 ELSE i
    ELSE IF i % 29 = 0 THEN i - seed ELSE i

\* CardDeck.shuffle: for i = length-1 down to 1 swap cards[i], cards[j].
\* shuffleFrom runs the loop for i = hi down to lo, as its upper half
\* followed by its lower half; the test on Len only makes the upper half be
\* computed before the lower half starts (a swap never changes the length).
RECURSIVE shuffleFrom(_, _, _, _)
shuffleFrom(cards, hi, lo, seed) ==
    IF hi < lo THEN cards
    ELSE IF hi = lo THEN Swap(cards, hi, RandomIndex(seed, hi))
    ELSE LET mid == (hi + lo) \div 2
             upper == shuffleFrom(cards, hi, mid + 1, seed)
         IN IF Len(upper) = Len(cards) THEN shuffleFrom(upper, mid, lo, seed) ELSE upper

shuffle(cards, seed) == shuffleFrom(cards, Len(cards) - 1, 1, seed)

hasCards(cards) == Len(cards) > 0
getRemainingCount(cards) == Len(cards)

\* CardDeck.drawCard: pop() takes the last card
drawCard(cards) == [card |-> cards[Len(cards)], cards |-> SubSeq(cards, 1, Len(cards) - 1)]

\* drawCards with the loop test i <= count
RECURSIVE drawCardsOneMore(_, _)
drawCardsOneMore(cards, count) ==
    IF count < 0 \/ Len(cards) = 0 THEN [drawn |-> <<>>, cards |-> cards]
    ELSE LET d == drawCard(cards)
             rest == drawCardsOneMore(d.cards, count - 1)
         IN [drawn |-> <<d.card>> \o rest.drawn, cards |-> rest.cards]

\* CardDeck.drawCards: pop until count cards are drawn or the deck is empty
RECURSIVE drawCards(_, _)
drawCards(cards, count) ==
    IF count <= 0 \/ Len(cards) = 0 THEN [drawn |-> <<>>, cards |-> cards]
    ELSE LET d == drawCard(cards)
             rest == drawCards(d.cards, count - 1)
         IN [drawn |-> <<d.card>> \o rest.drawn, cards |-> rest.cards]


\* ------------------------------------------------------------ Game.js: Game
\* lastDiscardedCard before any discard (undefined in the source)
NoCard == 0
\* winner before any win (undefined in the source)
NoWinner == -1

Positions == 0..3

\* one entry of data.players as Game.initialize builds it
NewPlayer ==
    [handCards |-> <<>>, discardedCards |-> <<>>, exposedCards |-> <<>>,
     flowerCards |-> <<>>, availableActions |-> <<>>]

\* a new GameModel document: the schema defaults
NewGameData ==
    [players |-> [p \in Positions |-> NewPlayer],
     state |-> "waiting", currentPlayer |-> 0, dealer |-> 0, deck |-> <<>>,
     lastDiscardedCard |-> NoCard, lastAction |-> "none", gameHistory |-> <<>>,
     winner |-> NoWinner]

\* new Game(gameData): the document and a freshly built, unshuffled CardDeck
Game(gameData) == [data |-> gameData, deck |-> initializeDeck]

\* Game.initialize: reset the players, shuffle, record the shuffled ids
initialize(g, seed) ==
    LET cards == shuffle(g.deck, seed)
    IN [data |-> [g.data EXCEPT !.players = [p \in Positions |-> NewPlayer],
                                !.state = "starting",
                                !.currentPlayer = g.data.dealer,
                                !.deck = cards],
        deck |-> cards]

FlowersOf(hand) == SelectSeq(hand, LAMBDA c : isFlower(getCardById(c)))
NonFlowersOf(hand) == SelectSeq(hand, LAMBDA c : ~isFlower(getCardById(c)))

\* the for loop of handleFlowerCards leaving the flowers in the hand
RECURSIVE flowerPassKeep(_, _, _)
flowerPassKeep(g, i, hasFlowers) ==
    IF i >= 4 THEN [g |-> g, hasFlowers |-> hasFlowers]
    ELSE LET playerIndex == (g.data.dealer + i) % 4
             flowerCards == FlowersOf(g.data.players[playerIndex].handCards)
         IN IF Len(flowerCards) > 0
            THEN flowerPassKeep(
                   [g EXCEPT !.data.players[playerIndex].flowerCards = @ \o flowerCards],
                   i + 1, TRUE)
            ELSE flowerPassKeep(g, i + 1, hasFlowers)

\* one run of the for loop of handleFlowerCards, from index i on
RECURSIVE flowerPass(_, _, _)
flowerPass(g, i, hasFlowers) ==
    IF i >= 4 THEN [g |-> g, hasFlowers |-> hasFlowers]
    ELSE LET playerIndex == (g.data.dealer + i) % 4
             player == g.data.players[playerIndex]
             flowerCards == FlowersOf(player.handCards)
             remainingCards == NonFlowersOf(player.handCards)
         IN IF Len(flowerCards) > 0
            THEN LET d == drawCards(g.deck, Len(flowerCards))
                 IN flowerPass(
                      [data |-> [g.data EXCEPT
                                   !.players[playerIndex].flowerCards = @ \o flowerCards,
                                   !.players[playerIndex].handCards = remainingCards \o d.drawn],
                       deck |-> d.cards],
                      i + 1, TRUE)
            ELSE flowerPass(g, i + 1, hasFlowers)

\* Game.handleFlowerCards: repeat the loop while a pass found a flower
RECURSIVE handleFlowerCards(_)
handleFlowerCards(g) ==
    LET r == flowerPass(g, 0, FALSE)
    IN IF r.hasFlowers THEN handleFlowerCards(r.g) ELSE r.g

\* the forEach of dealCards giving 13 cards to every seat
RECURSIVE dealFromEven(_, _)
dealFromEven(g, index) ==
    IF index >= 4 THEN g
    ELSE LET d == drawCards(g.deck, 13)
         IN dealFromEven([data |-> [g.data EXCEPT !.players[index].handCards = d.drawn],
                          deck |-> d.cards],
                         index + 1)

\* the forEach of dealCards, from index on: 14 cards to the dealer, 13 to the others
RECURSIVE dealFrom(_, _)
dealFrom(g, index) ==
    IF index >= 4 THEN g
    ELSE LET cardCount == IF index = g.data.dealer THEN 14 ELSE 13
             d == drawCards(g.deck, cardCount)
         IN dealFrom([data |-> [g.data EXCEPT !.players[index].handCards = d.drawn],
                      deck |-> d.cards],
                     index + 1)

\* Game.dealCards
dealCards(g) ==
    LET dealt == dealFrom([g EXCEPT !.data.state = "dealing"], 0)
        swept == handleFlowerCards(dealt)
    IN [swept EXCEPT !.data.state = "playing"]

\* number of entries of hand that equal the card with this id
CountSame(hand, cardId) ==
    Len(SelectSeq(hand, LAMBDA h : equals(getCardById(h), getCardById(cardId))))

\* Game.isWinningHand: the 14-card test, then the unfinished check returns false
RECURSIVE SumCards(_)
SumCards(groups) ==
    IF Len(groups) = 0 THEN 0 ELSE Len(Head(groups).cards) + SumCards(Tail(groups))

isWinningHand(handCards, exposedCards) ==
    LET totalCards == Len(handCards) + SumCards(exposedCards)
    IN IF totalCards # 14 THEN FALSE ELSE FALSE

\* Game.canHu
canHu(g, playerPosition, cardId) ==
    LET player == g.data.players[playerPosition]
        testCards == IF cardId # NoCard THEN Append(player.handCards, cardId)
                     ELSE player.handCards
    IN isWinningHand(testCards, player.exposedCards)

\* Game.canPeng
canPeng(g, playerPosition, cardId) ==
    CountSame(g.data.players[playerPosition].handCards, cardId) >= 2

\* Game.canGang
canGang(g, playerPosition, cardId) ==
    CountSame(g.data.players[playerPosition].handCards, cardId) >= 3

\* Game.canChi
canChi(g, playerPosition, cardId) ==
    LET hand == g.data.players[playerPosition].handCards
        card == getCardById(cardId)
    IN IF ~isNumber(card) THEN FALSE
       ELSE \E i \in 1..Len(hand) : \E j \in (i + 1)..Len(hand) :
               canFormSequence(card, getCardById(hand[i]), getCardById(hand[j]))

\* the actions checkPlayerActions lists for seat index
actionsFor(g, index, currentPlayerPos, discardedCardId) ==
    (IF canHu(g, index, discardedCardId) THEN <<"hu">> ELSE <<>>)
    \o (IF canGang(g, index, discardedCardId) THEN <<"gang">> ELSE <<>>)
    \o (IF canPeng(g, index, discardedCardId) THEN <<"peng">> ELSE <<>>)
    \o (IF index = (currentPlayerPos + 1) % 4 /\ canChi(g, index, discardedCardId)
        THEN <<"chi">> ELSE <<>>)

\* Game.checkPlayerActions: availableActions is set for a seat with a
\* non-empty list and left as it was for the others
checkPlayerActions(g, discardedCardId) ==
    LET currentPlayerPos == g.data.currentPlayer
    IN [g EXCEPT !.data.players =
          [index \in Positions |->
             IF index = currentPlayerPos THEN g.data.players[index]
             ELSE LET actions == actionsFor(g, index, currentPlayerPos, discardedCardId)
                  IN IF Len(actions) > 0
                     THEN [g.data.players[index] EXCEPT !.availableActions = actions]
                     ELSE g.data.players[index]]]

\* nextPlayer passing the turn two seats on, without a draw
nextPlayerSkip(g) == [g EXCEPT !.data.currentPlayer = (@ + 2) % 4]

\* Game.nextPlayer
nextPlayer(g) ==
    LET cur == (g.data.currentPlayer + 1) % 4
        g1 == [g EXCEPT !.data.currentPlayer = cur]
    IN IF ~hasCards(g1.deck) THEN g1
       ELSE LET d == drawCard(g1.deck)
            IN IF ~isFlower(getCardById(d.card))
               THEN [data |-> [g1.data EXCEPT !.players[cur].handCards = Append(@, d.card)],
                     deck |-> d.cards]
               ELSE LET g2 == [data |-> [g1.data EXCEPT
                                           !.players[cur].flowerCards = Append(@, d.card)],
                               deck |-> d.cards]
                    IN IF ~hasCards(g2.deck) THEN g2
                       ELSE LET s == drawCard(g2.deck)
                            IN [data |-> [g2.data EXCEPT
                                            !.players[cur].handCards = Append(@, s.card)],
                                deck |-> s.cards]

\* Array.indexOf, as a 1-based index; 0 when absent (-1 in the source)
RECURSIVE IndexFrom(_, _, _)
IndexFrom(seq, x, k) ==
    IF k > Len(seq) THEN 0 ELSE IF seq[k] = x THEN k ELSE IndexFrom(seq, x, k + 1)
indexOf(seq, x) == IndexFrom(seq, x, 1)

\* Array.splice(index, 1)
RemoveAt(seq, k) == SubSeq(seq, 1, k - 1) \o SubSeq(seq, k + 1, Len(seq))

\* a method's or handler's outcome: ok is FALSE where it throws or answers
\* with an error (nothing is saved then), error is the message
Failed(g, error) == [ok |-> FALSE, error |-> error, g |-> g]
Done(g) == [ok |-> TRUE, error |-> "", g |-> g]

\* Game.playerDiscard past its three checks: move the card to the discard
\* pile, record it, offer it to the other seats, advance the turn
discardCard(g, playerPosition, cardId) ==
    LET cardIndex == indexOf(g.data.players[playerPosition].handCards, cardId)
        g1 == [g EXCEPT
                 !.data.players[playerPosition].handCards = RemoveAt(@, cardIndex),
                 !.data.players[playerPosition].discardedCards = Append(@, cardId),
                 !.data.lastDiscardedCard = cardId,
                 !.data.lastAction = "discard",
                 !.data.gameHistory =
                     Append(@, [player |-> playerPosition, action |-> "discard",
                                cards |-> <<cardId>>])]
    IN nextPlayer(checkPlayerActions(g1, cardId))

\* playerDiscard without its test of whose turn it is
playerDiscardAnyTurn(g, playerPosition, cardId) ==
    IF g.data.state # "playing" THEN Failed(g, "not playing")
    ELSE IF indexOf(g.data.players[playerPosition].handCards, cardId) = 0
         THEN Failed(g, "card not in hand")
    ELSE Done(discardCard(g, playerPosition, cardId))

\* Game.playerDiscard
playerDiscard(g, playerPosition, cardId) ==
    IF g.data.state # "playing" THEN Failed(g, "not playing")
    ELSE IF g.data.currentPlayer # playerPosition THEN Failed(g, "not the player's turn")
    ELSE IF indexOf(g.data.players[playerPosition].handCards, cardId) = 0
         THEN Failed(g, "card not in hand")
    ELSE Done(discardCard(g, playerPosition, cardId))

\* Game.endGame
endGame(g, winner) == [g EXCEPT !.data.state = "finished", !.data.winner = winner]

\* the last n entries of a sequence (Array.slice(-n))
LastN(seq, n) == SubSeq(seq, IF Len(seq) > n THEN Len(seq) - n + 1 ELSE 1, Len(seq))

\* getGameState listing every seat's concealed cards as well
getGameStateOpen(g) ==
    [state |-> g.data.state,
     currentPlayer |-> g.data.currentPlayer,
     dealer |-> g.data.dealer,
     players |-> [position \in Positions |->
                     [position |-> position,
                      handCardCount |-> Len(g.data.players[position].handCards),
                      handCards |-> g.data.players[position].handCards,
                      discardedCards |-> g.data.players[position].discardedCards,
                      exposedCards |-> g.data.players[position].exposedCards,
                      flowerCards |-> g.data.players[position].flowerCards]],
     lastDiscardedCard |-> g.data.lastDiscardedCard,
     remainingCards |-> getRemainingCount(g.deck),
     gameHistory |-> LastN(g.data.gameHistory, 10)]

\* Game.getGameState
getGameState(g) ==
    [state |-> g.data.state,
     currentPlayer |-> g.data.currentPlayer,
     dealer |-> g.data.dealer,
     players |-> [position \in Positions |->
                     [position |-> position,
                      handCardCount |-> Len(g.data.players[position].handCards),
                      discardedCards |-> g.data.players[position].discardedCards,
                      exposedCards |-> g.data.players[position].exposedCards,
                      flowerCards |-> g.data.players[position].flowerCards]],
     lastDiscardedCard |-> g.data.lastDiscardedCard,
     remainingCards |-> getRemainingCount(g.deck),
     gameHistory |-> LastN(g.data.gameHistory, 10)]


\* ------------------------------------------- gameController.js: the handlers
\* remove up to n entries equal to cardId, scanning from the end of the hand
\* (the downward splice loop of executePengAction / executeGangAction)
RECURSIVE RemoveFromEnd(_, _, _, _)
RemoveFromEnd(hand, cardId, i, n) ==
    IF i < 1 \/ n <= 0 THEN hand
    ELSE IF hand[i] = cardId THEN RemoveFromEnd(RemoveAt(hand, i), cardId, i - 1, n - 1)
    ELSE RemoveFromEnd(hand, cardId, i - 1, n)

\* the forEach of executeChiAction: each submitted id other than the discard
\* is removed from the hand when it is found there
RECURSIVE RemoveChiCards(_, _, _)
RemoveChiCards(hand, cardIds, discardedCard) ==
    IF Len(cardIds) = 0 THEN hand
    ELSE LET cardId == Head(cardIds)
             index == indexOf(hand, cardId)
             hand1 == IF cardId # discardedCard /\ index > 0 THEN RemoveAt(hand, index)
                      ELSE hand
         IN RemoveChiCards(hand1, Tail(cardIds), discardedCard)

\* GameController.executeChiAction
executeChiAction(g, playerPosition, cardIds) ==
    [g EXCEPT
       !.data.players[playerPosition].handCards =
           RemoveChiCards(@, cardIds, g.data.lastDiscardedCard),
       !.data.players[playerPosition].exposedCards =
           Append(@, [type |-> "chi", cards |-> cardIds, from |-> g.data.currentPlayer]),
       !.data.currentPlayer = playerPosition]

\* GameController.executePengAction
executePengAction(g, playerPosition, cardId) ==
    [g EXCEPT
       !.data.players[playerPosition].handCards = RemoveFromEnd(@, cardId, Len(@), 2),
       !.data.players[playerPosition].exposedCards =
           Append(@, [type |-> "peng", cards |-> <<cardId, cardId, cardId>>,
                      from |-> g.data.currentPlayer]),
       !.data.currentPlayer = playerPosition]

\* executeGangAction without the draw after the gang
executeGangActionNoDraw(g, playerPosition, gangType, cardId) ==
    LET g1 == IF gangType = "ming"
              THEN [g EXCEPT
                      !.data.players[playerPosition].handCards =
                          RemoveFromEnd(@, cardId, Len(@), 3),
                      !.data.players[playerPosition].exposedCards =
                          Append(@, [type |-> "gang",
                                     cards |-> <<cardId, cardId, cardId, cardId>>,
                                     from |-> g.data.currentPlayer])]
              ELSE g
    IN [g1 EXCEPT !.data.currentPlayer = playerPosition]

\* GameController.executeGangAction
executeGangAction(g, playerPosition, gangType, cardId) ==
    LET g1 == IF gangType = "ming"
              THEN [g EXCEPT
                      !.data.players[playerPosition].handCards =
                          RemoveFromEnd(@, cardId, Len(@), 3),
                      !.data.players[playerPosition].exposedCards =
                          Append(@, [type |-> "gang",
                                     cards |-> <<cardId, cardId, cardId, cardId>>,
                                     from |-> g.data.currentPlayer])]
              ELSE g
        g2 == IF hasCards(g1.deck)
              THEN LET d == drawCard(g1.deck)
                   IN [data |-> [g1.data EXCEPT
                                   !.players[playerPosition].handCards = Append(@, d.card)],
                       deck |-> d.cards]
              ELSE g1
    IN [g2 EXCEPT !.data.currentPlayer = playerPosition]

\* The handlers are static methods that call this.execute*Action; they are
\* taken as invoked on the class (GameController.playerChi(req, res)), where
\* this is GameController.

\* GameController.createGame: build the document, initialize, deal
GameController_createGame(seed) == dealCards(initialize(Game(NewGameData), seed))

\* GameController.playerDiscard
GameController_playerDiscard(gameData, position, cardId) ==
    playerDiscard(Game(gameData), position, cardId)

\* GameController.playerChi.  With no discard yet getCardById(undefined)
\* throws inside canChi and the request fails.
GameController_playerChi(gameData, position, cardIds) ==
    LET game == Game(gameData)
    IN IF gameData.lastDiscardedCard = NoCard THEN Failed(game, "exception")
       ELSE IF ~canChi(game, position, gameData.lastDiscardedCard)
            THEN Failed(game, "cannot chi")
       ELSE Done(executeChiAction(game, position, cardIds))

\* GameController.playerPeng
GameController_playerPeng(gameData, position) ==
    LET game == Game(gameData)
    IN IF gameData.lastDiscardedCard = NoCard THEN Failed(game, "exception")
       ELSE IF ~canPeng(game, position, gameData.lastDiscardedCard)
            THEN Failed(game, "cannot peng")
       ELSE Done(executePengAction(game, position, gameData.lastDiscardedCard))

\* GameController.playerGang: only gangType 'ming' is tested against canGang
GameController_playerGang(gameData, position, gangType) ==
    LET game == Game(gameData)
    IN IF gangType = "ming" /\ gameData.lastDiscardedCard = NoCard
       THEN Failed(game, "exception")
       ELSE IF gangType = "ming" /\ ~canGang(game, position, gameData.lastDiscardedCard)
            THEN Failed(game, "cannot gang")
       ELSE Done(executeGangAction(game, position, gangType, gameData.lastDiscardedCard))

\* playerHu without its canHu test
playerHuAlways(gameData, position) == Done(endGame(Game(gameData), position))

\* GameController.playerHu
GameController_playerHu(gameData, position) ==
    LET game == Game(gameData)
    IN IF ~canHu(game, position, gameData.lastDiscardedCard)
       THEN Failed(game, "cannot hu")
       ELSE Done(endGame(game, position))

\* playerPass deleting the availableActions of every seat
playerPassAll(gameData, position) ==
    Done([Game(gameData) EXCEPT
            !.data.players = [p \in Positions |-> [@[p] EXCEPT !.availableActions = <<>>]]])

\* GameController.playerPass: delete player.availableActions
GameController_playerPass(gameData, position) ==
    Done([Game(gameData) EXCEPT !.data.players[position].availableActions = <<>>])

\* GameController.getGameState: the snapshot, with the requesting seat's own
\* cards added
GameController_getGameState(gameData, position) ==
    [gameState |-> getGameState(Game(gameData)),
     myCards |-> gameData.players[position].handCards,
     myPosition |-> position]

\* ------------------------------------------------ Game.js: the flower bonus
\* HUA_FENG_MAP: the wind of each flower value
HUA_FENG_MAP ==
    [value \in 1..8 |->
        CASE value \in {1, 5} -> "dong"
          [] value \in {2, 6} -> "nan"
          [] value \in {3, 7} -> "xi"
          [] OTHER -> "bei"]

\* a wind that no card and no seat has (null in the source)
NoFeng == "none"

\* Card.getFlowerFeng
getFlowerFeng(card) == IF ~isFlower(card) THEN NoFeng ELSE HUA_FENG_MAP[card.value]

\* Game.getFengByPosition: the feng initialize gives the seat
getFengByPosition(position) == <<"dong", "nan", "xi", "bei">>[position + 1]

\* the values of the cards (flowerCards.map(cardId => getCardById(cardId).value))
ValuesOf(cards) == {getCardById(cards[k]).value : k \in 1..Len(cards)}

\* Game.calculateFlowerFan
calculateFlowerFan(g, playerPosition) ==
    LET flowerCards == g.data.players[playerPosition].flowerCards
        playerFeng == getFengByPosition(playerPosition)
        matching == SelectSeq(flowerCards,
                              LAMBDA c : /\ isFlower(getCardById(c))
                                         /\ getFlowerFeng(getCardById(c)) = playerFeng)
        hasFourSeasons == {5, 6, 7, 8} \subseteq ValuesOf(flowerCards)
        hasFourPlants == {1, 2, 3, 4} \subseteq ValuesOf(flowerCards)
    IN Len(matching) + (IF hasFourSeasons \/ hasFourPlants THEN 2 ELSE 0)

\* ---------------------------------------------------------- Room.js: Room
\* The room document: state, owner, players (in the order they were pushed),
\* maxPlayers and isActive.  A player is userId, position, isReady, isOnline.

\* maxPlayers of a room document that sets none (the default of roomSchema)
DefaultMaxPlayers == 4

\* Room.createRoom: the document of a new room
createRoom(ownerId) ==
    [state |-> "waiting", owner |-> ownerId, players |-> <<>>,
     maxPlayers |-> DefaultMaxPlayers, isActive |-> TRUE]

\* players.findIndex(p => p.userId === userId), counted from 1; 0 when none
RECURSIVE UserIndexFrom(_, _, _)
UserIndexFrom(players, userId, k) ==
    IF k > Len(players) THEN 0
    ELSE IF players[k].userId = userId THEN k
    ELSE UserIndexFrom(players, userId, k + 1)
findIndex(players, userId) == UserIndexFrom(players, userId, 1)

\* Room.hasPlayer
hasPlayer(roomData, userId) == findIndex(roomData.players, userId) > 0

\* the outcome of a method of Room: ok is FALSE when it threw (nothing is
\* saved then), value is what it returned
RoomFailed(roomData, error) == [ok |-> FALSE, error |-> error, room |-> roomData, value |-> -1]
RoomDone(roomData, value) == [ok |-> TRUE, error |-> "", room |-> roomData, value |-> value]

\* the while loop of joinRoom: the first position from `position` on that no
\* player has
RECURSIVE FreePosition(_, _)
FreePosition(players, position) ==
    IF \E k \in 1..Len(players) : players[k].position = position
    THEN FreePosition(players, position + 1)
    ELSE position

\* joinRoom giving the new player the number of players as position
joinRoomByCount(roomData, userId) ==
    IF Len(roomData.players) >= roomData.maxPlayers THEN RoomFailed(roomData, "room full")
    ELSE IF roomData.state = "playing" THEN RoomFailed(roomData, "playing")
    ELSE LET k == findIndex(roomData.players, userId)
         IN IF k > 0
            THEN RoomDone([roomData EXCEPT !.players[k].isOnline = TRUE],
                          roomData.players[k].position)
            ELSE RoomDone([roomData EXCEPT !.players =
                              Append(@, [userId |-> userId,
                                         position |-> Len(roomData.players),
                                         isReady |-> FALSE, isOnline |-> TRUE])],
                          Len(roomData.players))

\* Room.joinRoom
joinRoom(roomData, userId) ==
    IF Len(roomData.players) >= roomData.maxPlayers THEN RoomFailed(roomData, "room full")
    ELSE IF roomData.state = "playing" THEN RoomFailed(roomData, "playing")
    ELSE LET k == findIndex(roomData.players, userId)
             position == FreePosition(roomData.players, 0)
         IN IF k > 0
            THEN RoomDone([roomData EXCEPT !.players[k].isOnline = TRUE],
                          roomData.players[k].position)
            ELSE RoomDone([roomData EXCEPT !.players =
                              Append(@, [userId |-> userId, position |-> position,
                                         isReady |-> FALSE, isOnline |-> TRUE])],
                          position)

\* Room.leaveRoom
leaveRoom(roomData, userId) ==
    LET playerIndex == findIndex(roomData.players, userId)
    IN IF playerIndex = 0 THEN RoomFailed(roomData, "not in room")
       ELSE IF roomData.state = "playing"
       THEN RoomDone([roomData EXCEPT !.players[playerIndex].isOnline = FALSE], 0)
       ELSE LET players == RemoveAt(roomData.players, playerIndex)
            IN RoomDone([roomData EXCEPT
                           !.players = players,
                           !.owner = IF roomData.owner = userId /\ Len(players) > 0
                                     THEN players[1].userId ELSE @,
                           !.isActive = IF Len(players) = 0 THEN FALSE ELSE @],
                        0)

\* players.every(p => p.isReady)
EveryReady(players) == \A k \in 1..Len(players) : players[k].isReady

\* Room.playerReady
playerReady(roomData, userId, isReady) ==
    LET k == findIndex(roomData.players, userId)
    IN IF k = 0 THEN RoomFailed(roomData, "not in room")
       ELSE LET players == [roomData.players EXCEPT ![k].isReady = isReady]
                allReady == Len(players) >= 2 /\ EveryReady(players)
            IN RoomDone([roomData EXCEPT
                           !.players = players,
                           !.state = IF allReady THEN "ready" ELSE "waiting"],
                        IF allReady THEN 1 ELSE 0)

\* the forEach of startGame and gameFinished: isReady = false for everyone
ResetReady(players) == [k \in 1..Len(players) |-> [players[k] EXCEPT !.isReady = FALSE]]

\* Room.startGame
startGame(roomData) ==
    IF roomData.state # "ready" THEN RoomFailed(roomData, "not ready")
    ELSE IF Len(roomData.players) < 2 THEN RoomFailed(roomData, "too few players")
    ELSE RoomDone([roomData EXCEPT !.state = "playing", !.players = ResetReady(@)], 0)

\* Room.gameFinished
gameFinished(roomData) ==
    RoomDone([roomData EXCEPT !.state = "finished", !.players = ResetReady(@)], 0)

\* Room.updatePlayerActivity
updatePlayerActivity(roomData, userId) ==
    LET k == findIndex(roomData.players, userId)
    IN IF k = 0 THEN RoomDone(roomData, 0)
       ELSE RoomDone([roomData EXCEPT !.players[k].isOnline = TRUE], 0)

\* Room.canDissolve / Room.dissolveRoom
canDissolve(roomData) == roomData.state # "playing"
dissolveRoom(roomData) ==
    IF ~canDissolve(roomData) THEN RoomFailed(roomData, "cannot dissolve")
    ELSE RoomDone([roomData EXCEPT !.isActive = FALSE, !.state = "finished"], 0)

\* ------------------------------------------------------------- state machine
\* data:    the GameModel document as last saved
\* deck:    the cards of the CardDeck of the Game instance that served the
\*          last successful request (its getGameState().remainingCards)
\* resp:    the last successful response: the action, the seat that acted
\*          and what it submitted.  A request answered with an error saves
\*          nothing and leaves all four as they were.
\* nclaims: accepted chi/peng/gang requests so far
\* room:    the room document
\* ncalls:  accepted calls of the room's methods so far
VARIABLES data, deck, resp, nclaims, room, ncalls

vars == <<data, deck, resp, nclaims, room, ncalls>>

\* the user who created the room
Owner == 1

\* position in a response that names no seat
NoPosition == -1

Response(action, position, arg) == [action |-> action, position |-> position, arg |-> arg]

Init ==
    /\ data = NewGameData
    /\ deck = <<>>
    /\ resp = Response("none", NoPosition, <<>>)
    /\ nclaims = 0
    /\ room = createRoom(Owner)
    /\ ncalls = 0

\* the game document exists once createGame has run
Created == data.state # "waiting"

GANG_TYPES == {"ming", "an", "jia"}

HandSet(gameData, position) ==
    {gameData.players[position].handCards[k] :
        k \in 1..Len(gameData.players[position].handCards)}

\* the cards a seat asks to discard: in its turn each card it holds, and in
\* or out of turn two fixed cards, whether it holds them or not
DiscardInputs(gameData, position) ==
    (IF position = gameData.currentPlayer THEN HandSet(gameData, position) ELSE {})
        \cup {generateId("wan", 1), generateId("zi", 7)}

\* cardIds a client submits with a chi: two cards of its hand around the
\* discard when the three form a run, or the discard with the first two
\* cards of its hand whatever they are
ChiInputs(gameData, position) ==
    LET d == gameData.lastDiscardedCard
        hand == gameData.players[position].handCards
        near == HandSet(gameData, position) \cap ((d - 2)..(d + 2))
    IN IF d = NoCard THEN {<<>>}
       ELSE {c \in {<<a, d, b>> : a \in near, b \in near} :
                /\ c[1] < c[3]
                /\ canFormSequence(getCardById(c[2]), getCardById(c[1]), getCardById(c[3]))}
            \cup (IF Len(hand) >= 2 THEN {<<d, hand[1], hand[2]>>} ELSE {<<>>})

\* the handler's outcome r becomes the saved document when it succeeded
Apply(r, action, position, arg, claims) ==
    IF r.ok
    THEN /\ data' = r.g.data
         /\ deck' = r.g.deck
         /\ resp' = Response(action, position, arg)
         /\ nclaims' = nclaims + claims
         /\ UNCHANGED <<room, ncalls>>
    ELSE UNCHANGED vars

CreateGame ==
    /\ ~Created
    /\ \E seed \in 1..NumShuffles :
          Apply(Done(GameController_createGame(seed)), "create", NoPosition, <<>>, 0)

PlayerDiscard ==
    /\ Created
    /\ \E position \in Positions :
          \E cardId \in DiscardInputs(data, position) :
             \E r \in {GameController_playerDiscard(data, position, cardId)} :
                /\ r.ok => Len(data.gameHistory) < MaxDiscards
                /\ Apply(r, "discard", position, <<cardId>>, 0)

PlayerChi ==
    /\ Created
    /\ \E position \in Positions :
          \E cardIds \in ChiInputs(data, position) :
             \E r \in {GameController_playerChi(data, position, cardIds)} :
                /\ r.ok => nclaims < MaxMelds
                /\ Apply(r, "chi", position, cardIds, 1)

PlayerPeng ==
    /\ Created
    /\ \E position \in Positions :
          \E r \in {GameController_playerPeng(data, position)} :
             /\ r.ok => nclaims < MaxMelds
             /\ Apply(r, "peng", position, <<>>, 1)

PlayerGang ==
    /\ Created
    /\ \E position \in Positions, gangType \in GANG_TYPES :
          \E r \in {GameController_playerGang(data, position, gangType)} :
             /\ r.ok => nclaims < MaxMelds
             /\ Apply(r, "gang", position, <<gangType>>, 1)

PlayerHu ==
    /\ Created
    /\ \E position \in Positions :
          Apply(GameController_playerHu(data, position), "hu", position, <<>>, 0)

\* a seat sends a pass when it has been offered actions
PlayerPass ==
    /\ Created
    /\ \E position \in Positions :
          /\ Len(data.players[position].availableActions) > 0
          /\ Apply(GameController_playerPass(data, position), "pass", position, <<>>, 0)

Next ==
    \/ CreateGame
    \/ PlayerDiscard
    \/ PlayerChi
    \/ PlayerPeng
    \/ PlayerGang
    \/ PlayerHu
    \/ PlayerPass

Spec == Init /\ [][Next]_vars

\* ------------------------------------------- one Game object played to the end
\* The handlers build a Game per request.  Here one Game object is kept and
\* its playerDiscard is called turn after turn, so its deck runs down.

\* the card the current seat discards: its first or its last card in the
\* first WallChoices discards, its last card from then on
WallInputs ==
    LET hand == data.players[data.currentPlayer].handCards
    IN IF hand = <<>> THEN {}
       ELSE IF Len(data.gameHistory) < WallChoices THEN {hand[1], hand[Len(hand)]}
       ELSE {hand[Len(hand)]}

\* the discard made on a Game object newly built from the document, so that
\* the cards drawn do not follow from the deck order and the discards alone
GameDiscardFresh ==
    /\ Created
    /\ \E cardId \in WallInputs :
          \E r \in {playerDiscard(Game(data), data.currentPlayer, cardId)} :
             Apply(r, "discard", data.currentPlayer, <<cardId>>, 0)

GameDiscard ==
    /\ Created
    /\ \E cardId \in WallInputs :
          \E r \in {playerDiscard([data |-> data, deck |-> deck],
                                  data.currentPlayer, cardId)} :
             Apply(r, "discard", data.currentPlayer, <<cardId>>, 0)

NextWall ==
    \/ CreateGame
    \/ GameDiscard

SpecWall == Init /\ [][NextWall]_vars

\* ------------------------------------- a round played through the handler
\* The seat in turn sends its discard request, turn after turn, and no seat
\* sends a claim.

TurnDiscard ==
    /\ Created
    /\ Len(data.gameHistory) < MaxTurns
    /\ \E cardId \in WallInputs :
          \E r \in {GameController_playerDiscard(data, data.currentPlayer, cardId)} :
             Apply(r, "discard", data.currentPlayer, <<cardId>>, 0)

NextTurns ==
    \/ CreateGame
    \/ TurnDiscard

SpecTurns == Init /\ [][NextTurns]_vars

\* ------------------------------------------------- the methods of one room
\* One Room object is kept and its methods are called one after another.

Users == 1..NumUsers

\* the outcome r of a method becomes the room document when it did not throw
ApplyRoom(r) ==
    IF r.ok /\ r.room # room
    THEN /\ room' = r.room
         /\ ncalls' = ncalls + 1
         /\ UNCHANGED <<data, deck, resp, nclaims>>
    ELSE UNCHANGED vars

JoinRoom ==
    /\ ncalls < MaxRoomCalls
    /\ \E userId \in Users : ApplyRoom(joinRoom(room, userId))

LeaveRoom ==
    /\ ncalls < MaxRoomCalls
    /\ \E userId \in Users : ApplyRoom(leaveRoom(room, userId))

PlayerReady ==
    /\ ncalls < MaxRoomCalls
    /\ \E userId \in Users, isReady \in BOOLEAN :
          ApplyRoom(playerReady(room, userId, isReady))

StartGame ==
    /\ ncalls < MaxRoomCalls
    /\ ApplyRoom(startGame(room))

\* gameFinished is called for a room whose game is played
GameFinished ==
    /\ ncalls < MaxRoomCalls
    /\ room.state = "playing"
    /\ ApplyRoom(gameFinished(room))

UpdatePlayerActivity ==
    /\ ncalls < MaxRoomCalls
    /\ \E userId \in Users : ApplyRoom(updatePlayerActivity(room, userId))

DissolveRoom ==
    /\ ncalls < MaxRoomCalls
    /\ ApplyRoom(dissolveRoom(room))

NextRoom ==
    \/ JoinRoom
    \/ LeaveRoom
    \/ PlayerReady
    \/ StartGame
    \/ GameFinished
    \/ UpdatePlayerActivity
    \/ DissolveRoom

SpecRoom == Init /\ [][NextRoom]_vars


\* ------------------------------------------------------------- properties

\* the ids in a sequence of melds, one after another
RECURSIVE MeldCards(_)
MeldCards(exposedCards) ==
    IF exposedCards = <<>> THEN <<>>
    ELSE Head(exposedCards).cards \o MeldCards(Tail(exposedCards))

\* every card a seat has: concealed, melded, flowers, discards
SeatCards(gameData, position) ==
    gameData.players[position].handCards
        \o MeldCards(gameData.players[position].exposedCards)
        \o gameData.players[position].flowerCards
        \o gameData.players[position].discardedCards

\* every card of the round: the deck and the four seats
RoundCards ==
    deck \o SeatCards(data, 0) \o SeatCards(data, 1) \o SeatCards(data, 2)
         \o SeatCards(data, 3)

AllCardIds == {initializeDeck[k] : k \in 1..Len(initializeDeck)}

\* C1: in every state of a dealt round the deck, the concealed hands, the
\* melds, the flower piles and the discard piles hold 144 cards together
C1_TileConservation == Created => Len(RoundCards) = 144

\* C2: in every state of a dealt round each non-flower identity occurs four
\* times and each flower identity once over deck, hands, melds, flower piles
\* and discard piles
C2_TileMultiplicity ==
    Created =>
        \A cardId \in AllCardIds :
            CountSame(RoundCards, cardId) = IF isFlower(getCardById(cardId)) THEN 1 ELSE 4

\* a seat's hand size: concealed cards plus three for each meld
HandSize(gameData, position) ==
    Len(gameData.players[position].handCards)
        + 3 * Len(gameData.players[position].exposedCards)

\* C3: while the round is played every seat holds 13 cards, except the seat
\* whose turn it is, which holds 14
C3_HandSize ==
    data.state = "playing" =>
        \A position \in Positions :
            HandSize(data, position) =
                IF position = data.currentPlayer THEN 14 ELSE 13

\* C4: after the deal and after every later draw no concealed hand holds a
\* flower card
C4_NoFlowerInHand ==
    Created =>
        \A position \in Positions :
            FlowersOf(data.players[position].handCards) = <<>>

\* the seat whose discard is the last discarded card
Discarder(gameData) == gameData.gameHistory[Len(gameData.gameHistory)].player

\* the step saves an accepted claim of the given kind
ClaimStep(kind) == nclaims' = nclaims + 1 /\ resp'.action = kind

\* rank of a claim: hu over gang over peng over chi
Priority == [hu |-> 4, gang |-> 3, peng |-> 2, chi |-> 1]

\* a seat may still make the claim on the last discard: the claim was offered
\* to it, it has not passed, and its hand supports it
Eligible(gameData, position, kind) ==
    /\ gameData.lastDiscardedCard # NoCard
    /\ position # Discarder(gameData)
    /\ \E k \in 1..Len(gameData.players[position].availableActions) :
          gameData.players[position].availableActions[k] = kind
    /\ CASE kind = "hu" -> canHu(Game(gameData), position, gameData.lastDiscardedCard)
         [] kind = "gang" -> canGang(Game(gameData), position, gameData.lastDiscardedCard)
         [] kind = "peng" -> canPeng(Game(gameData), position, gameData.lastDiscardedCard)
         [] OTHER -> /\ position = (Discarder(gameData) + 1) % 4
                     /\ canChi(Game(gameData), position, gameData.lastDiscardedCard)

\* C5: a claim on a discard is applied only when no other seat is eligible
\* for a claim of higher priority on it (hu over gang over peng over chi)
C5_ClaimPriority ==
    [][\A kind \in {"chi", "peng", "gang"} :
          (ClaimStep(kind) /\ data.lastDiscardedCard # NoCard) =>
              ~\E position \in Positions \ {resp'.position} :
                  \E higher \in {"hu", "gang", "peng"} :
                      /\ Priority[higher] > Priority[kind]
                      /\ Eligible(data, position, higher)]_vars

\* the step saves an accepted discard
DiscardStep == Len(data'.gameHistory) = Len(data.gameHistory) + 1

\* C6: when a seat other than the discarder is eligible to claim the discard,
\* accepting the discard neither advances the turn nor lets the next seat draw
C6_ClaimWindow ==
    [][(/\ DiscardStep
        /\ \E position \in Positions \ {data.currentPlayer} :
              Len(actionsFor(Game(data), position, data.currentPlayer,
                             data'.lastDiscardedCard)) > 0)
       => /\ data'.currentPlayer = data.currentPlayer
          /\ \A position \in Positions \ {data.currentPlayer} :
                data'.players[position].handCards = data.players[position].handCards]_vars

\* the handler a submitted claim or pass goes to
Handle(gameData, request) ==
    CASE request.action = "chi" ->
             GameController_playerChi(gameData, request.position, request.arg)
      [] request.action = "peng" -> GameController_playerPeng(gameData, request.position)
      [] request.action = "gang" ->
             GameController_playerGang(gameData, request.position, request.arg[1])
      [] request.action = "hu" -> GameController_playerHu(gameData, request.position)
      [] OTHER -> GameController_playerPass(gameData, request.position)

\* the game document after the request: the handler's result when it
\* succeeded, the document as it was when it answered with an error
Submit(gameData, request) ==
    LET r == Handle(gameData, request)
    IN IF r.ok THEN r.g.data ELSE gameData

\* the chi, peng and gang claims the seats may submit on the last discard
ClaimRequests(gameData) ==
    UNION {{Response("peng", position, <<>>), Response("gang", position, <<"ming">>)}
               \cup {Response("chi", position, cardIds) :
                        cardIds \in ChiInputs(gameData, position)} :
           position \in Positions}

\* the claims, a hu and a pass
WindowRequests(gameData) ==
    ClaimRequests(gameData)
        \cup {Response("hu", position, <<>>) : position \in Positions}
        \cup {Response("pass", position, <<>>) : position \in Positions}

\* C7: two requests of different seats on one discard leave the same game
\* document whichever of them arrives first
C7_ArrivalOrder ==
    resp.action = "discard" =>
        \A a \in WindowRequests(data), b \in WindowRequests(data) :
            (/\ a.position # b.position
             /\ a.position # Discarder(data)
             /\ b.position # Discarder(data))
                => Submit(Submit(data, a), b) = Submit(Submit(data, b), a)

\* C8: once a claim on the last discard has been applied, every further chi,
\* peng or gang claim on that discard is rejected
C8_SingleResolution ==
    (/\ data.lastDiscardedCard # NoCard
     /\ resp.action \in {"chi", "peng", "gang"}
     /\ resp.action = "gang" => resp.arg = <<"ming">>)
        => \A request \in ClaimRequests(data) : ~Handle(data, request).ok

\* C9: a discard from a seat that is not the current player, of a card the
\* seat does not hold, or while the round is not played, is answered with an
\* error and leaves the game as it was
C9_RejectedDiscard ==
    \A position \in Positions, cardId \in AllCardIds :
        (\/ position # data.currentPlayer
         \/ cardId \notin HandSet(data, position)
         \/ data.state # "playing")
            => /\ ~playerDiscard(Game(data), position, cardId).ok
               /\ playerDiscard(Game(data), position, cardId).g = Game(data)
               /\ ~GameController_playerDiscard(data, position, cardId).ok

\* a round after an accepted discard in which a seat out of turn asks to
\* discard a card it holds and the seat in turn a card it does not hold
C9_Witness ==
    /\ resp.action = "discard"
    /\ \E position \in Positions \ {data.currentPlayer} :
          \E cardId \in HandSet(data, position) :
             playerDiscard(Game(data), position, cardId).error = "not the player's turn"
    /\ \E cardId \in AllCardIds \ HandSet(data, data.currentPlayer) :
          playerDiscard(Game(data), data.currentPlayer, cardId).error = "card not in hand"

\* C10: a peng is accepted only from a seat holding two copies of the last
\* discard, and a gang of any type only from a seat holding three
C10_IllegalClaims ==
    [][/\ ClaimStep("peng") =>
             /\ data.lastDiscardedCard # NoCard
             /\ CountSame(data.players[resp'.position].handCards,
                          data.lastDiscardedCard) >= 2
       /\ ClaimStep("gang") =>
             /\ data.lastDiscardedCard # NoCard
             /\ CountSame(data.players[resp'.position].handCards,
                          data.lastDiscardedCard) >= 3]_vars

\* C11: a chi is accepted only from the seat after the discarder, and only
\* when its hand holds two cards that form a run with the discard
C11_ChiRestriction ==
    [][ClaimStep("chi") =>
          /\ data.lastDiscardedCard # NoCard
          /\ resp'.position = (Discarder(data) + 1) % 4
          /\ canChi(Game(data), resp'.position, data.lastDiscardedCard)]_vars

\* C12: the seat that made the last discard never chis, pengs or gangs that
\* discard itself
C12_DiscarderCannotClaim ==
    [][\A kind \in {"chi", "peng", "gang"} :
          (/\ ClaimStep(kind)
           /\ data.lastDiscardedCard # NoCard
           /\ kind = "gang" => resp'.arg = <<"ming">>)
              => resp'.position # Discarder(data)]_vars

\* C13: a discard is accepted only from the current seat and passes the turn
\* to the seat after it; two discards with nothing accepted between them come
\* from neighbouring seats
C13_TurnOrder ==
    [][DiscardStep =>
          /\ resp'.position = data.currentPlayer
          /\ data'.currentPlayer = (resp'.position + 1) % 4
          /\ resp.action = "discard" => resp'.position = (resp.position + 1) % 4]_vars

\* two discards and no claim: seats 0 and 1 have discarded, seat 2 is in turn
C13_Witness ==
    /\ nclaims = 0
    /\ Len(data.gameHistory) = 2
    /\ data.gameHistory[1].player = 0
    /\ data.gameHistory[2].player = 1
    /\ data.currentPlayer = 2

\* the seats passed over when the turn goes from the discarder to the claimant
Between(discarder, claimant) ==
    {position \in Positions :
        /\ (position - discarder + 4) % 4 > 0
        /\ (position - discarder + 4) % 4 < (claimant - discarder + 4) % 4}

\* C14: after an accepted chi, peng or gang of the last discard the claimant
\* is the current seat, and no seat passed over holds a card drawn for the
\* turn it lost
C14_TurnAfterClaim ==
    (/\ data.lastDiscardedCard # NoCard
     /\ resp.action \in {"chi", "peng", "gang"}
     /\ resp.action = "gang" => resp.arg = <<"ming">>)
        => /\ data.currentPlayer = resp.position
           /\ \A position \in Between(Discarder(data), resp.position) :
                 HandSize(data, position) = 13

\* C15: once the deck of a dealt round is empty the round is finished, with
\* no winner recorded
C15_WallExhaustion ==
    (Created /\ Len(deck) = 0) =>
        /\ data.state = "finished"
        /\ data.winner = NoWinner

\* the game document Game.endGame leaves when the round is ended for winner
Finished(gameData, winner) == endGame(Game(gameData), winner).data

\* what a finished round must keep: hands, melds, flowers, discard piles,
\* current seat, state and winner
RoundCore(gameData) ==
    [players |-> [position \in Positions |->
                     [handCards |-> gameData.players[position].handCards,
                      exposedCards |-> gameData.players[position].exposedCards,
                      flowerCards |-> gameData.players[position].flowerCards,
                      discardedCards |-> gameData.players[position].discardedCards]],
     currentPlayer |-> gameData.currentPlayer,
     state |-> gameData.state,
     winner |-> gameData.winner]

\* every request a seat may send: a claim, a gang of any type, a hu, a pass
AllRequests(gameData) ==
    WindowRequests(gameData)
        \cup {Response("gang", position, <<gangType>>) :
                 position \in Positions, gangType \in GANG_TYPES}

\* C16: on a finished round no discard is accepted and no chi, peng, gang, hu
\* or pass changes a hand, a meld list, a discard pile, the current seat or
\* the winner
C16_TerminalImmutable ==
    Created =>
        \A winner \in Positions :
            /\ \A position \in Positions :
                  \A cardId \in HandSet(data, position) :
                      ~GameController_playerDiscard(Finished(data, winner),
                                                    position, cardId).ok
            /\ \A request \in AllRequests(Finished(data, winner)) :
                  RoundCore(Submit(Finished(data, winner), request))
                      = RoundCore(Finished(data, winner))

\* groups of a winning hand: three equal cards, or three consecutive ranks
\* of one suit from the given card up
TripletOf(cardId) == <<cardId, cardId, cardId>>
RunFrom(cardId) == <<cardId, cardId + 1, cardId + 2>>

\* the groups the sample hands are built from, in wan
SampleGroups ==
    {TripletOf(generateId("wan", value)) : value \in {1, 8}}
        \cup {RunFrom(generateId("wan", value)) : value \in {2, 5}}

\* four groups and a pair of 9-wan, no card more than four times; among them
\* 1-1-1, 2-3-4, 5-6-7, 8-8-8, 9-9
SampleHands ==
    {hand \in {g[1] \o g[2] \o g[3] \o g[4]
                  \o <<generateId("wan", 9), generateId("wan", 9)>> :
               g \in [1..4 -> SampleGroups]} :
        \A cardId \in AllCardIds : CountSame(hand, cardId) <= 4}

\* the first group of a hand as a meld exposed by peng or chi
MeldOf(hand) ==
    [type |-> IF hand[1] = hand[2] THEN "peng" ELSE "chi",
     cards |-> SubSeq(hand, 1, 3), from |-> 0]

\* the round with the seat's concealed hand and melds replaced
WithHand(gameData, position, handCards, exposedCards) ==
    [Game(gameData) EXCEPT !.data.players[position].handCards = handCards,
                           !.data.players[position].exposedCards = exposedCards]

\* C17: isWinningHand accepts a pair with four groups, none or one of them
\* exposed, and rejects the hand with its last card taken away; canHu accepts
\* the seat that holds all but the last card of such a hand and is given it
C17_WinDecomposition ==
    Created => \A hand \in SampleHands :
        /\ isWinningHand(hand, <<>>)
        /\ isWinningHand(SubSeq(hand, 4, 14), <<MeldOf(hand)>>)
        /\ ~isWinningHand(SubSeq(hand, 1, 13), <<>>)
        /\ ~isWinningHand(SubSeq(hand, 4, 13), <<MeldOf(hand)>>)
        /\ \A position \in Positions :
              /\ canHu(WithHand(data, position, SubSeq(hand, 1, 13), <<>>),
                       position, hand[14])
              /\ canHu(WithHand(data, position, SubSeq(hand, 4, 13), <<MeldOf(hand)>>),
                       position, hand[14])

Reverse(seq) == [k \in 1..Len(seq) |-> seq[Len(seq) + 1 - k]]

\* hands of the same size with other cards: the hand back to front, and as
\* many 1-wan
OtherHands(hand) == {Reverse(hand), [k \in 1..Len(hand) |-> generateId("wan", 1)]}

\* C20: the snapshot a seat is sent lists its own concealed cards and gives
\* for every seat the number of concealed cards; it is the same when another
\* seat holds other cards of the same number or the deck is in another order
C20_SnapshotRedaction ==
    Created =>
        \A position \in Positions :
            /\ GameController_getGameState(data, position).myCards
                   = data.players[position].handCards
            /\ \A other \in Positions :
                  GameController_getGameState(data, position).gameState
                          .players[other].handCardCount
                      = Len(data.players[other].handCards)
            /\ \A other \in Positions \ {position} :
                  \A handCards \in OtherHands(data.players[other].handCards) :
                      GameController_getGameState(
                          [data EXCEPT !.players[other].handCards = handCards,
                                       !.deck = Reverse(@)], position)
                          = GameController_getGameState(data, position)

\* a round after a discard in which seat 0 asks for the snapshot while seat 1
\* holds cards that are not all alike
C20_Witness ==
    /\ resp.action = "discard"
    /\ Len(GameController_getGameState(data, 0).myCards) = 13
    /\ Cardinality(OtherHands(data.players[1].handCards)
                       \ {data.players[1].handCards}) = 2
    /\ Reverse(data.deck) # data.deck

\* C21: the deck a new Game builds holds 144 cards: four of each rank 1..9
\* of wan, tong and suo, four of each of the seven zi, one of each of the
\* eight hua
C21_DeckPopulation ==
    /\ Len(Game(data).deck) = 144
    /\ \A type \in {"wan", "tong", "suo"} : \A value \in 1..9 :
          CountSame(Game(data).deck, generateId(type, value)) = 4
    /\ \A value \in 1..7 : CountSame(Game(data).deck, generateId("zi", value)) = 4
    /\ \A value \in 1..8 : CountSame(Game(data).deck, generateId("hua", value)) = 1
    /\ Len(SelectSeq(Game(data).deck, LAMBDA c : getCardById(c).type = "wan")) = 36
    /\ Len(SelectSeq(Game(data).deck, LAMBDA c : getCardById(c).type = "tong")) = 36
    /\ Len(SelectSeq(Game(data).deck, LAMBDA c : getCardById(c).type = "suo")) = 36
    /\ Len(SelectSeq(Game(data).deck, LAMBDA c : isHonor(getCardById(c)))) = 28
    /\ Len(FlowersOf(Game(data).deck)) = 8

\* a request has built a new deck and drawn from it
C21_Witness ==
    /\ resp.action = "discard"
    /\ Len(Game(data).deck) = 144
    /\ Len(deck) = 142

\* the seats hold 14 cards (the dealer) and 13 cards (the others)
DealtSizes(g) ==
    \A position \in Positions :
        Len(g.data.players[position].handCards)
            = IF position = g.data.dealer THEN 14 ELSE 13

\* the flowers the four seats have collected
FlowerCount(g) ==
    Len(g.data.players[0].flowerCards) + Len(g.data.players[1].flowerCards)
        + Len(g.data.players[2].flowerCards) + Len(g.data.players[3].flowerCards)

\* C22: the deal gives 14 cards to the dealer and 13 to each other seat and
\* leaves 91 in the deck; after the flower replacement the seats still hold
\* 14 and 13 and the deck holds 91 less the flowers collected
C22_InitialDeal ==
    /\ ~Created =>
          \A seed \in 1..DealSeeds :
              /\ Len(initialize(Game(data), seed).deck) = 144
              /\ DealtSizes(dealFrom(initialize(Game(data), seed), 0))
              /\ Len(dealFrom(initialize(Game(data), seed), 0).deck) = 91
              /\ DealtSizes(dealCards(initialize(Game(data), seed)))
              /\ Len(dealCards(initialize(Game(data), seed)).deck)
                     = 91 - FlowerCount(dealCards(initialize(Game(data), seed)))
    /\ resp.action = "create" =>
          /\ DealtSizes([data |-> data, deck |-> deck])
          /\ Len(deck) = 91 - FlowerCount([data |-> data, deck |-> deck])

\* a dealt round in which flowers were replaced
C22_Witness ==
    /\ resp.action = "create"
    /\ FlowerCount([data |-> data, deck |-> deck]) = 8
    /\ Len(deck) = 83
    /\ Len(data.players[0].handCards) = 14

\* the while loop of handleFlowerCards ends within n runs of its for loop
RECURSIVE SweepWithin(_, _)
SweepWithin(g, n) ==
    IF n = 0 THEN FALSE
    ELSE LET r == flowerPass(g, 0, FALSE)
         IN IF r.hasFlowers THEN SweepWithin(r.g, n - 1) ELSE TRUE

\* a run of the for loop that finds a flower moves it out of the hand, so
\* there are at most as many such runs as flowers, and one run after them
MaxSweeps == Len(FlowersOf(initializeDeck)) + 1

\* the dealt hands with the deck as dealt, and with only its last n cards left
SweepInputs(g) ==
    {g} \cup {[g EXCEPT !.deck = SubSeq(@, Len(@) - n + 1, Len(@))] : n \in 0..MaxShortDeck}

\* C23: handleFlowerCards ends for every dealt hand, also when replacement
\* cards are flowers and when the deck runs out during the replacement, and
\* it leaves no flower in a hand
C23_SweepTerminates ==
    /\ ~Created =>
          \A seed \in 1..DealSeeds :
              \A g \in SweepInputs(dealFrom(initialize(Game(data), seed), 0)) :
                  SweepWithin(g, MaxSweeps)
    /\ resp.action = "create" =>
          \A position \in Positions :
              FlowersOf(data.players[position].handCards) = <<>>

\* a round whose deal has swept eight flowers, where the sweep also ends on a
\* deal with flowers among the replacement cards and on a deck that gives out
\* before all flowers of the hand are replaced
C23_Witness ==
    /\ resp.action = "create"
    /\ FlowerCount([data |-> data, deck |-> deck]) = 8
    /\ \E seed \in 1..DealSeeds :
          \E g \in SweepInputs(dealFrom(initialize(Game(NewGameData), seed), 0)) :
              /\ Len(g.deck) < Len(FlowersOf(g.data.players[0].handCards))
              /\ ~SweepWithin(g, 1)
              /\ SweepWithin(g, MaxSweeps)
    /\ \E seed \in 1..DealSeeds :
          /\ ~SweepWithin(dealFrom(initialize(Game(NewGameData), seed), 0), 2)
          /\ SweepWithin(dealFrom(initialize(Game(NewGameData), seed), 0), 3)

\* a second Game object set up as initialize does on the deck order `cards`
\* with the given dealer, and dealt
SecondGame(cards, dealer) ==
    dealCards([data |-> [NewGameData EXCEPT !.players = [p \in Positions |-> NewPlayer],
                                            !.state = "starting",
                                            !.dealer = dealer,
                                            !.currentPlayer = dealer,
                                            !.deck = cards],
               deck |-> cards])

\* the Game object after the first n recorded discards are submitted to it
RECURSIVE Replay(_, _, _)
Replay(g, history, n) ==
    IF n = 0 THEN g
    ELSE playerDiscard(Replay(g, history, n - 1),
                       history[n].player, history[n].cards[1]).g

C25_NoStall ==
    resp.action = "discard" =>
        \/ data.state = "finished"
        \/ /\ data.currentPlayer = (resp.position + 1) % 4
           /\ \E cardId \in HandSet(data, data.currentPlayer) :
                 playerDiscard([data |-> data, deck |-> deck],
                               data.currentPlayer, cardId).ok

\* C26: an accepted discard takes one copy of the card out of the seat's
\* hand, appends it to that seat's discard pile, makes it the last discarded
\* card and appends one discard entry to the history; no other seat's
\* discard pile, meld list or flower area changes
C26_DiscardEffect ==
    [][DiscardStep =>
          /\ Len(data'.players[resp'.position].handCards)
                 = Len(data.players[resp'.position].handCards) - 1
          /\ CountSame(data'.players[resp'.position].handCards, resp'.arg[1])
                 = CountSame(data.players[resp'.position].handCards, resp'.arg[1]) - 1
          /\ data'.players[resp'.position].discardedCards
                 = Append(data.players[resp'.position].discardedCards, resp'.arg[1])
          /\ data'.lastDiscardedCard = resp'.arg[1]
          /\ data'.gameHistory
                 = Append(data.gameHistory,
                          [player |-> resp'.position, action |-> "discard",
                           cards |-> resp'.arg])
          /\ \A position \in Positions \ {resp'.position} :
                /\ data'.players[position].discardedCards
                       = data.players[position].discardedCards
                /\ data'.players[position].exposedCards
                       = data.players[position].exposedCards
                /\ data'.players[position].flowerCards
                       = data.players[position].flowerCards]_vars

\* a run: three number cards of one suit whose ranks are consecutive
IsRun(cards) ==
    /\ Len(cards) = 3
    /\ \A k \in 1..3 : isNumber(getCardById(cards[k]))
    /\ \A k \in 1..3 : getCardById(cards[k]).type = getCardById(cards[1]).type
    /\ \E low \in 1..7 :
          {getCardById(cards[k]).value : k \in 1..3} = {low, low + 1, low + 2}

\* n cards, all the same
IsSet(cards, n) ==
    /\ Len(cards) = n
    /\ \A k \in 1..n : cards[k] = cards[1]

\* the meld a claim has just added to the claimant's exposed cards
NewMeld ==
    data'.players[resp'.position].exposedCards[
        Len(data'.players[resp'.position].exposedCards)]

\* the step adds a meld to the claimant's exposed cards
MeldStep(kind) ==
    /\ ClaimStep(kind)
    /\ Len(data'.players[resp'.position].exposedCards)
           = Len(data.players[resp'.position].exposedCards) + 1

\* C27: a meld added to a seat's exposed cards is a chi of three number cards
\* of one suit with consecutive ranks among which is the claimed discard, a
\* peng of three equal cards or a gang of four equal cards, and its cards
\* other than the claimed discard have left the claimant's hand
C27_MeldWellFormed ==
    [][/\ MeldStep("chi") =>
             /\ NewMeld.type = "chi"
             /\ IsRun(NewMeld.cards)
             /\ \E k \in 1..3 : NewMeld.cards[k] = data.lastDiscardedCard
             /\ \A k \in 1..3 :
                   NewMeld.cards[k] # data.lastDiscardedCard =>
                       CountSame(data'.players[resp'.position].handCards,
                                 NewMeld.cards[k])
                           = CountSame(data.players[resp'.position].handCards,
                                       NewMeld.cards[k]) - 1
       /\ MeldStep("peng") =>
             /\ NewMeld.type = "peng"
             /\ IsSet(NewMeld.cards, 3)
             /\ NewMeld.cards[1] = data.lastDiscardedCard
             /\ CountSame(data'.players[resp'.position].handCards, NewMeld.cards[1])
                    = CountSame(data.players[resp'.position].handCards,
                                NewMeld.cards[1]) - 2
       /\ MeldStep("gang") =>
             /\ NewMeld.type = "gang"
             /\ IsSet(NewMeld.cards, 4)
             /\ NewMeld.cards[1] = data.lastDiscardedCard
             /\ CountSame(data'.players[resp'.position].handCards, NewMeld.cards[1])
                    = CountSame(data.players[resp'.position].handCards,
                                NewMeld.cards[1]) - 3]_vars

\* C28: the seat recorded as `from` on a chi, peng or gang meld is the seat
\* that discarded the claimed card
C28_MeldProvenance ==
    [][\A kind \in {"chi", "peng", "gang"} :
          MeldStep(kind) => NewMeld.from = Discarder(data)]_vars

\* the Game object executeGangAction leaves when the deck of g is `cards`
GangOn(gameData, cards, position) ==
    executeGangAction([data |-> gameData, deck |-> cards], position, "ming",
                      gameData.lastDiscardedCard)

\* C29: an accepted gang on a discard takes three copies of the card out of
\* the claimant's hand, adds one gang meld of four cards, and the claimant
\* draws one card: the deck of the request is one card shorter, or stays
\* empty with no card drawn; no other seat's hand changes
C29_GangReplacement ==
    [][MeldStep("gang") =>
          /\ CountSame(data'.players[resp'.position].handCards, data.lastDiscardedCard)
                 = CountSame(data.players[resp'.position].handCards,
                             data.lastDiscardedCard) - 3
          /\ data'.players[resp'.position].exposedCards
                 = Append(data.players[resp'.position].exposedCards, NewMeld)
          /\ Len(NewMeld.cards) = 4
          /\ Len(data'.players[resp'.position].handCards)
                 = Len(data.players[resp'.position].handCards) - 3 + 1
          /\ data'.players[resp'.position].handCards[
                 Len(data'.players[resp'.position].handCards)]
                 = Game(data).deck[Len(Game(data).deck)]
          /\ Len(deck') = Len(Game(data).deck) - 1
          /\ \A position \in Positions \ {resp'.position} :
                data'.players[position].handCards = data.players[position].handCards
          /\ GangOn(data, <<>>, resp'.position).deck = <<>>
          /\ Len(GangOn(data, <<>>, resp'.position).data.players[resp'.position].handCards)
                 = Len(data.players[resp'.position].handCards) - 3]_vars

\* a seat holding three copies of the discard has taken it as a gang and
\* drawn from the deck of the request
C29_Witness ==
    /\ resp.action = "gang"
    /\ resp.arg = <<"ming">>
    /\ Len(data.players[resp.position].exposedCards) = 1
    /\ data.players[resp.position].exposedCards[1].type = "gang"
    /\ Len(deck) = Len(Game(data).deck) - 1
    /\ Len(data.players[resp.position].handCards) = 11

\* C30: canFormSequence is true exactly for three number cards of one suit
\* whose ranks are three consecutive values, in whatever order they are
\* given; canChi is false for every honor and every flower discard
C30_RunFormation ==
    /\ ~Created =>
          \A a \in AllCardIds, b \in AllCardIds, c \in AllCardIds :
              /\ canFormSequence(getCardById(a), getCardById(b), getCardById(c))
                     <=> IsRun(<<a, b, c>>)
              /\ canFormSequence(getCardById(a), getCardById(b), getCardById(c))
                     = canFormSequence(getCardById(b), getCardById(a), getCardById(c))
              /\ canFormSequence(getCardById(a), getCardById(b), getCardById(c))
                     = canFormSequence(getCardById(c), getCardById(b), getCardById(a))
              /\ canFormSequence(getCardById(a), getCardById(b), getCardById(c))
                     = canFormSequence(getCardById(a), getCardById(c), getCardById(b))
    /\ Created =>
          \A position \in Positions, cardId \in AllCardIds :
              ~isNumber(getCardById(cardId)) => ~canChi(Game(data), position, cardId)

\* a round in which a seat can chi the number card just discarded, holding
\* the two cards of the run out of order, and holds honors
C30_Witness ==
    /\ resp.action = "discard"
    /\ \E position \in Positions :
          /\ canChi(Game(data), position, data.lastDiscardedCard)
          /\ \E i \in 1..Len(data.players[position].handCards) :
                \E j \in (i + 1)..Len(data.players[position].handCards) :
                   /\ data.players[position].handCards[i]
                          > data.players[position].handCards[j]
                   /\ IsRun(<<data.lastDiscardedCard,
                              data.players[position].handCards[i],
                              data.players[position].handCards[j]>>)
          /\ \E cardId \in HandSet(data, position) : isHonor(getCardById(cardId))

\* the smaller of two numbers
Min2(a, b) == IF a <= b THEN a ELSE b

\* the decks drawCards is tried on: the first cards of the deck, none to
\* MaxDraw of them, and the whole deck
DrawDecks == {SubSeq(deck, 1, Min2(size, Len(deck))) : size \in 0..MaxDraw} \cup {deck}

\* C31: drawCards(n) returns min(n, remaining) cards, each of them a card of
\* the deck, taken from its end, and leaves the deck shorter by that number,
\* for every n >= 0 and every deck size from 0 on
C31_ShortDraw ==
    \A cards \in DrawDecks, n \in 0..(MaxDraw + 1) :
        /\ Len(drawCards(cards, n).drawn) = Min2(n, Len(cards))
        /\ Len(drawCards(cards, n).cards) = Len(cards) - Min2(n, Len(cards))
        /\ drawCards(cards, n).cards = SubSeq(cards, 1, Len(cards) - Min2(n, Len(cards)))
        /\ \A k \in 1..Len(drawCards(cards, n).drawn) :
              /\ drawCards(cards, n).drawn[k] = cards[Len(cards) + 1 - k]
              /\ drawCards(cards, n).drawn[k] \in AllCardIds

\* a dealt round whose deck is longer than the counts tried, so that the
\* draws tried are full draws, short draws and draws from an empty deck
C31_Witness ==
    /\ resp.action = "create"
    /\ Len(deck) > MaxDraw + 1
    /\ \E cards \in DrawDecks, n \in 1..(MaxDraw + 1) :
          /\ 0 < Len(cards)
          /\ Len(cards) < n
          /\ Len(drawCards(cards, n).drawn) = Len(cards)
    /\ \E cards \in DrawDecks : Len(cards) = 0 /\ drawCards(cards, 1).drawn = <<>>
    /\ Len(drawCards(deck, MaxDraw).drawn) = MaxDraw

\* the two decks hold the same cards, each as many times
SameCards(cards, other) ==
    /\ Len(cards) = Len(other)
    /\ \A cardId \in AllCardIds : CountSame(cards, cardId) = CountSame(other, cardId)

\* short decks: up to MaxShuffleLen cards from the start of the new deck
\* (equal cards) and from its end (the flowers, all different)
ShuffleDecks ==
    {SubSeq(initializeDeck, first, first + len - 1) :
        first \in 1..MaxShuffleLen, len \in 0..MaxShuffleLen}
    \cup {SubSeq(initializeDeck, Len(initializeDeck) - len + 1, Len(initializeDeck)) :
             len \in 0..MaxShuffleLen}

\* C32: shuffle changes only the order of the deck: the deck holds the same
\* cards, each as many times, before and after, for every sequence of random
\* choices
C32_ShufflePermutation ==
    /\ ~Created =>
          /\ \A cards \in ShuffleDecks :
                \A n \in 0..(Factorial(Len(cards)) - 1) :
                    SameCards(shuffle(cards, 0 - n), cards)
          /\ \A seed \in 1..DealSeeds :
                SameCards(shuffle(initializeDeck, seed), initializeDeck)
    /\ resp.action = "create" => SameCards(data.deck, initializeDeck)

\* a round whose deck was shuffled into another order, and a short deck of
\* different cards that the shuffles bring into as many orders as there are
C32_Witness ==
    /\ resp.action = "create"
    /\ data.deck # initializeDeck
    /\ \E cards \in ShuffleDecks :
          /\ Len(cards) = MaxShuffleLen
          /\ Cardinality({shuffle(cards, 0 - n) : n \in 0..(Factorial(Len(cards)) - 1)})
                 = Factorial(Len(cards))

\* C33: the Game built from the saved game document has the deck of the
\* Game that was saved: the same cards left, in the same order
C33_PersistenceRoundTrip ==
    Created => Game(data).deck = deck

\* the hand of the seat supports the action on the last discarded card
Supports(gameData, position, action) ==
    /\ gameData.lastDiscardedCard # NoCard
    /\ CASE action = "hu" -> canHu(Game(gameData), position, gameData.lastDiscardedCard)
         [] action = "gang" -> canGang(Game(gameData), position, gameData.lastDiscardedCard)
         [] action = "peng" -> canPeng(Game(gameData), position, gameData.lastDiscardedCard)
         [] OTHER -> /\ position = (Discarder(gameData) + 1) % 4
                     /\ canChi(Game(gameData), position, gameData.lastDiscardedCard)

\* C34: every action listed in a seat's availableActions is one the seat is
\* eligible for against the last discarded card, and no action is listed
\* once a claim on that discard has been applied
C34_ScopedOptions ==
    /\ \A position \in Positions :
          \A k \in 1..Len(data.players[position].availableActions) :
              Supports(data, position, data.players[position].availableActions[k])
    /\ resp.action \in {"chi", "peng", "gang"} =>
          \A position \in Positions : data.players[position].availableActions = <<>>

\* C35: a pass leaves every hand, meld list, flower area and discard pile,
\* the saved deck, the last discarded card, the current seat and the state
\* as they were and draws no card; it clears the availableActions of the
\* seat that passes and of no other seat
C35_PassNoOp ==
    [][resp'.action = "pass" =>
          /\ RoundCore(data') = RoundCore(data)
          /\ data'.lastDiscardedCard = data.lastDiscardedCard
          /\ data'.deck = data.deck
          /\ data'.gameHistory = data.gameHistory
          /\ deck' = Game(data).deck
          /\ data'.players[resp'.position].availableActions = <<>>
          /\ \A position \in Positions \ {resp'.position} :
                data'.players[position].availableActions
                    = data.players[position].availableActions]_vars

\* a seat has passed on a discard while another seat is still offered a claim
C35_Witness ==
    /\ resp.action = "pass"
    /\ data.lastDiscardedCard # NoCard
    /\ data.players[resp.position].availableActions = <<>>
    /\ \E position \in Positions \ {resp.position} :
          Len(data.players[position].availableActions) > 0

\* the seats the for loop of handleFlowerCards addresses
SweepSeats(dealer) == {(dealer + i) % 4 : i \in 0..3}

\* the checks of createGame on the room: the user is in it and it is ready
CanCreateGame(roomData, userId) == hasPlayer(roomData, userId) /\ roomData.state = "ready"

\* C36: a room whose game is played has four players, and a room for which
\* createGame deals has a player at every seat the flower sweep addresses
C36_FourSeats ==
    /\ room.state = "playing" => Len(room.players) = Cardinality(Positions)
    /\ (\E userId \in Users : CanCreateGame(room, userId)) =>
          \A seat \in SweepSeats(NewGameData.dealer) : seat < Len(room.players)

\* C37: the room is ready only with at least two players, all of them ready,
\* so that startGame succeeds only when every player in the room is ready
C37_RoomReady ==
    /\ room.state = "ready" => Len(room.players) >= 2 /\ EveryReady(room.players)
    /\ startGame(room).ok => EveryReady(room.players)

\* C38: the room has at most maxPlayers players, no user is in it twice, and
\* the positions are different from one another and within 0..maxPlayers-1
C38_RoomSeating ==
    /\ Len(room.players) <= room.maxPlayers
    /\ \A k \in 1..Len(room.players), m \in 1..Len(room.players) :
          k # m => /\ room.players[k].userId # room.players[m].userId
                   /\ room.players[k].position # room.players[m].position
    /\ \A k \in 1..Len(room.players) :
          room.players[k].position \in 0..(room.maxPlayers - 1)

\* a full room in which a user who joined after another had left sits at the
\* position that had been freed, and a further user is turned away
C38_Witness ==
    /\ Len(room.players) = room.maxPlayers
    /\ \E k \in 1..Len(room.players) : room.players[k].position < k - 1
    /\ \E userId \in Users :
          /\ ~hasPlayer(room, userId)
          /\ ~joinRoom(room, userId).ok

\* C39: joinRoom by a user who is in the room succeeds, marks the user
\* online and returns the position the user has, whatever the number of
\* players and the state of the room
C39_ReconnectKeepsSeat ==
    \A k \in 1..Len(room.players) :
        /\ joinRoom(room, room.players[k].userId).ok
        /\ joinRoom(room, room.players[k].userId).value = room.players[k].position
        /\ joinRoom(room, room.players[k].userId).room.players[k].isOnline
        /\ Len(joinRoom(room, room.players[k].userId).room.players) = Len(room.players)

\* the flowers the seat has collected whose wind is the seat's: plum and
\* spring (1, 5) are east, orchid and summer south, chrysanthemum and autumn
\* west, bamboo and winter (4, 8) north; seat 0 is east, seat 3 north
OwnWindFlowers(gameData, position) ==
    {k \in 1..Len(gameData.players[position].flowerCards) :
        (getCardById(gameData.players[position].flowerCards[k]).value - 1) % 4 = position}

\* the seat has collected all of the flowers first..first+3
HasSet(gameData, position, first) ==
    \A value \in first..(first + 3) :
        \E k \in 1..Len(gameData.players[position].flowerCards) :
            gameData.players[position].flowerCards[k] = generateId("hua", value)

\* C40: calculateFlowerFan of a seat is the number of its collected flowers
\* of its own wind, plus 2 when it has all of the flowers 1..4 or all of the
\* flowers 5..8, and lies between 0 and 4
C40_FlowerBonus ==
    Created =>
        \A position \in Positions :
            /\ calculateFlowerFan(Game(data), position)
                   = Cardinality(OwnWindFlowers(data, position))
                       + (IF HasSet(data, position, 1) \/ HasSet(data, position, 5)
                          THEN 2 ELSE 0)
            /\ calculateFlowerFan(Game(data), position) \in 0..4

====
